---- MODULE Spec2Model ----
(***************************************************************************)
(* Verification model of the statsthinking21-python notebooks.            *)
(*                                                                         *)
(* Each notebook fragment that computes something is modelled as its own  *)
(* small state machine (its variables, its loop position), with its own   *)
(* specification.  Real numbers are modelled by scaled integers or by a   *)
(* numerator over a stated denominator; a missing value (NaN) is the      *)
(* record NaN.                                                            *)
(***************************************************************************)
EXTENDS Integers, Sequences, FiniteSets, TLC

(***************************************************************************)
(* Numbers with a missing value.                                          *)
(***************************************************************************)
NaN == [isnan |-> TRUE, val |-> 0]

Num(v) == [isnan |-> FALSE, val |-> v]

\* numpy's elementwise "a > t": False whenever a is NaN
Gt(a, t) == (~a.isnan) /\ a.val > t

AbsInt(i) == IF i < 0 THEN -i ELSE i

\* np.abs on one cell: NaN stays NaN
NpAbs(a) == IF a.isnan THEN NaN ELSE Num(AbsInt(a.val))

(***************************************************************************)
(* notebooks/utils/utils.py : threshold_df_correlation                     *)
(*                                                                         *)
(* Correlations are in units of 1/CorrScale: the integer v stands for     *)
(* v/CorrScale, so CorrScale itself is the correlation 1.0.               *)
(***************************************************************************)
NumVars == 2

CorrScale == 2

VarIdx == 1..NumVars

CorrValues == {Num(v) : v \in (-CorrScale)..CorrScale} \cup {NaN}

ThreshValues == (-CorrScale)..CorrScale

VarPairs == {p \in VarIdx \X VarIdx : p[1] < p[2]}

\* What df.corr() can return: a symmetric matrix over the columns of df,
\* whose diagonal is 1.0, or NaN for a column without variance, and whose
\* other cells are correlations, or NaN.
CorrMatrices ==
    {[r \in VarIdx |-> [c \in VarIdx |->
         IF r = c THEN d[r]
         ELSE IF r < c THEN o[<<r, c>>] ELSE o[<<c, r>>]]] :
       d \in [VarIdx -> {Num(CorrScale), NaN}],
       o \in [VarPairs -> CorrValues]}

VARIABLES
    df_corr,             \* df.corr(), the input correlation matrix
    thresh,              \* argument thresh
    use_absolute_corr,   \* argument use_absolute_corr
    cc,                  \* local cc
    cc_exceeds_thresh,   \* local: np.where result as a sequence of <<row, col>>
    variable_idx,        \* loop variable (0-based as in the code)
    exceedence,          \* the frame being built: sequence of rows
    utils_pc             \* "start", "loop", "done"

varsUtils == <<df_corr, thresh, use_absolute_corr, cc, cc_exceeds_thresh,
               variable_idx, exceedence, utils_pc>>

\* np.where(cond) over a 2-d array: the cells where cond is true, in
\* row-major order, as a sequence of <<row, col>>
RECURSIVE WhereFrom(_, _, _)
WhereFrom(m, t, k) ==
    IF k > NumVars * NumVars THEN <<>>
    ELSE LET row == ((k - 1) \div NumVars) + 1
             col == ((k - 1) % NumVars) + 1
         IN  (IF Gt(m[row][col], t) THEN <<(<<row, col>>)>> ELSE <<>>)
             \o WhereFrom(m, t, k + 1)

\* a plausible slip: ">=" for ">", so that a correlation equal to thresh passes
RECURSIVE WhereGeFrom(_, _, _)
WhereGeFrom(m, t, k) ==
    IF k > NumVars * NumVars THEN <<>>
    ELSE LET row == ((k - 1) \div NumVars) + 1
             col == ((k - 1) % NumVars) + 1
         IN  (IF (~m[row][col].isnan) /\ m[row][col].val >= t
              THEN <<(<<row, col>>)>> ELSE <<>>)
             \o WhereGeFrom(m, t, k + 1)

NpWhereGe(m, t) == WhereGeFrom(m, t, 1)

\* line 13: np.where(cc > thresh)
NpWhereGt(m, t) == WhereFrom(m, t, 1)

\* line 11-12: cc = np.abs(cc) when use_absolute_corr
AbsMatrix(m) == [r \in VarIdx |-> [c \in VarIdx |-> NpAbs(m[r][c])]]

UtilsInit ==
    /\ df_corr \in CorrMatrices
    /\ thresh \in ThreshValues
    /\ use_absolute_corr \in BOOLEAN
    /\ cc = df_corr
    /\ cc_exceeds_thresh = <<>>
    /\ variable_idx = 0
    /\ exceedence = <<>>
    /\ utils_pc = "start"

UtilsIdle ==
    /\ df_corr = <<>>
    /\ thresh = 0
    /\ use_absolute_corr = FALSE
    /\ cc = <<>>
    /\ cc_exceeds_thresh = <<>>
    /\ variable_idx = 0
    /\ exceedence = <<>>
    /\ utils_pc = "idle"

\* lines 10-14: compute cc, the cells above thresh, and the empty frame
UtilsCall ==
    /\ utils_pc = "start"
    /\ LET c1 == IF use_absolute_corr THEN AbsMatrix(df_corr) ELSE df_corr
       IN  /\ cc' = c1
           /\ cc_exceeds_thresh' = NpWhereGt(c1, thresh)
    /\ exceedence' = <<>>
    /\ variable_idx' = 0
    /\ utils_pc' = "loop"
    /\ UNCHANGED <<df_corr, thresh, use_absolute_corr>>

\* lines 15-22: one iteration of the for loop
UtilsLoop ==
    /\ utils_pc = "loop"
    /\ variable_idx < Len(cc_exceeds_thresh)
    /\ LET row == cc_exceeds_thresh[variable_idx + 1][1]
           col == cc_exceeds_thresh[variable_idx + 1][2]
       IN  exceedence' =
             IF row = col THEN exceedence
             ELSE Append(exceedence,
                         [idx |-> variable_idx, rowvar |-> row,
                          colvar |-> col, corr |-> cc[row][col]])
    /\ variable_idx' = variable_idx + 1
    /\ UNCHANGED <<df_corr, thresh, use_absolute_corr, cc,
                   cc_exceeds_thresh, utils_pc>>

\* line 27: return(exceedence)
UtilsReturn ==
    /\ utils_pc = "loop"
    /\ variable_idx = Len(cc_exceeds_thresh)
    /\ utils_pc' = "done"
    /\ UNCHANGED <<df_corr, thresh, use_absolute_corr, cc,
                   cc_exceeds_thresh, variable_idx, exceedence>>

UtilsNext == UtilsCall \/ UtilsLoop \/ UtilsReturn

\* The correlation of r and c as the claim reads it: the absolute value when
\* use_absolute_corr is set, the signed value otherwise (NaN when undefined)
ClaimedCorr(r, c) ==
    LET a == df_corr[r][c]
    IN  IF a.isnan THEN a
        ELSE IF use_absolute_corr /\ a.val < 0 THEN [a EXCEPT !.val = -a.val]
        ELSE a

RowsFor(r, c) ==
    {i \in DOMAIN exceedence :
        exceedence[i].rowvar = r /\ exceedence[i].colvar = c}

\* C1: the returned frame holds exactly one row (rowvar, colvar, corr) for an
\* ordered pair of distinct variables iff their correlation (absolute when
\* use_absolute_corr) is strictly greater than thresh; equal correlations,
\* undefined ones and the diagonal are left out, and corr is the value that
\* was compared.
C1_ThresholdRows ==
    utils_pc = "done" =>
        /\ \A r, c \in VarIdx :
              /\ r = c => RowsFor(r, c) = {}
              /\ r # c =>
                   Cardinality(RowsFor(r, c)) =
                     IF (~ClaimedCorr(r, c).isnan) /\ ClaimedCorr(r, c).val > thresh
                     THEN 1 ELSE 0
        /\ \A i \in DOMAIN exceedence :
              exceedence[i].corr =
                  ClaimedCorr(exceedence[i].rowvar, exceedence[i].colvar)

\* C1 witness: a returned frame with a negative correlation kept through its
\* absolute value, on both ordered pairs
C1_Witness ==
    /\ utils_pc = "done"
    /\ use_absolute_corr
    /\ thresh > 0
    /\ \E r, c \in VarIdx :
          /\ r # c
          /\ (~df_corr[r][c].isnan) /\ df_corr[r][c].val < 0
          /\ RowsFor(r, c) # {} /\ RowsFor(c, r) # {}

\* C1 second case reached too: a correlation equal to thresh is left out
C1_EqualLeftOut ==
    /\ utils_pc = "done"
    /\ \E r, c \in VarIdx :
          /\ r # c
          /\ df_corr[r][c] = Num(thresh)
          /\ RowsFor(r, c) = {}

(***************************************************************************)
(* notebooks/04-FittingSimpleModels.py : the median of Height              *)
(*                                                                         *)
(* A Series is a sequence of rows [label, value].  The rows of             *)
(* adult_nhanes_data['Height'] keep the integer labels the frame was       *)
(* loaded with: after query() and dropna() they are some of the labels     *)
(* 0..MaxLabel, in increasing order.  The median is a fraction [num, den]; *)
(* den = 0 is "not assigned".                                              *)
(***************************************************************************)
MaxN == 4

MaxLabel == 5

MaxHeight == 3

Labels == 0..MaxLabel

Heights == 1..MaxHeight

Unassigned == [num |-> 0, den |-> 0]

VARIABLES
    Height,               \* adult_nhanes_data['Height']
    height_sorted,        \* line 56
    height_length_mod_2,  \* line 63 (-1 before it is assigned)
    median,               \* lines 82 / 87
    median_pc             \* "sort", "mod", "if", "done", "KeyError"

varsMedian == <<Height, height_sorted, height_length_mod_2, median, median_pc>>

SetMin(S) == CHOOSE x \in S : \A y \in S : x <= y

\* the rows of a frame with label set L and values v, in label order
RECURSIVE RowsOf(_, _)
RowsOf(L, v) ==
    IF L = {} THEN <<>>
    ELSE LET l == SetMin(L)
         IN  <<[label |-> l, value |-> v[l]]>> \o RowsOf(L \ {l}, v)

\* Series.sort_values(): rows in ascending order of value.  Rows of equal
\* value are kept in their order here; pandas may order them differently,
\* which changes no value at any position and no value under any label.
RECURSIVE InsertRow(_, _)
InsertRow(sorted, row) ==
    IF sorted = <<>> THEN <<row>>
    ELSE IF row.value < Head(sorted).value THEN <<row>> \o sorted
    ELSE <<Head(sorted)>> \o InsertRow(Tail(sorted), row)

RECURSIVE SortValues(_)
SortValues(s) ==
    IF s = <<>> THEN <<>>
    ELSE InsertRow(SortValues(SubSeq(s, 1, Len(s) - 1)), s[Len(s)])

\* series[key] with an integer key on an integer index: the row whose LABEL
\* is key (not the row at position key)
HasLabel(s, key) == \E i \in DOMAIN s : s[i].label = key

AtLabel(s, key) == s[CHOOSE i \in DOMAIN s : s[i].label = key].value

\* series.iloc[pos]: the row at 0-based position pos
Iloc(s, pos) == s[pos + 1].value

\* line 81: int(np.ceil(n / 2))
Midpoint(n) == (n + 1) \div 2

\* a plausible slip: the lower middle position taken twice
EvenMidpointsLowerTwice(n) == <<(n \div 2) - 1, (n \div 2) - 1>>

\* lines 85-86: [int(n/2 - 1), int(n/2)]
EvenMidpoints(n) == <<(n \div 2) - 1, n \div 2>>

MedianInit ==
    /\ \E L \in SUBSET Labels :
         /\ Cardinality(L) \in 1..MaxN
         /\ \E v \in [L -> Heights] : Height = RowsOf(L, v)
    /\ height_sorted = <<>>
    /\ height_length_mod_2 = -1
    /\ median = Unassigned
    /\ median_pc = "sort"

MedianIdle ==
    /\ Height = <<>>
    /\ height_sorted = <<>>
    /\ height_length_mod_2 = -1
    /\ median = Unassigned
    /\ median_pc = "idle"

\* line 56
MedianSort ==
    /\ median_pc = "sort"
    /\ height_sorted' = SortValues(Height)
    /\ median_pc' = "mod"
    /\ UNCHANGED <<Height, height_length_mod_2, median>>

\* line 63
MedianMod ==
    /\ median_pc = "mod"
    /\ height_length_mod_2' = Len(height_sorted) % 2
    /\ median_pc' = "if"
    /\ UNCHANGED <<Height, height_sorted, median>>

\* lines 79-82, the label midpoint exists
MedianOdd ==
    /\ median_pc = "if"
    /\ height_length_mod_2 = 1
    /\ LET midpoint == Midpoint(Len(height_sorted))
       IN  /\ HasLabel(height_sorted, midpoint)
           /\ median' = [num |-> AtLabel(height_sorted, midpoint), den |-> 1]
    /\ median_pc' = "done"
    /\ UNCHANGED <<Height, height_sorted, height_length_mod_2>>

\* lines 79-82, no row is labelled midpoint: the lookup raises KeyError
MedianOddKeyError ==
    /\ median_pc = "if"
    /\ height_length_mod_2 = 1
    /\ ~HasLabel(height_sorted, Midpoint(Len(height_sorted)))
    /\ median_pc' = "KeyError"
    /\ UNCHANGED <<Height, height_sorted, height_length_mod_2, median>>

\* lines 83-87
MedianEven ==
    /\ median_pc = "if"
    /\ height_length_mod_2 # 1
    /\ LET midpoints == EvenMidpoints(Len(height_sorted))
       IN  median' = [num |-> Iloc(height_sorted, midpoints[1])
                               + Iloc(height_sorted, midpoints[2]),
                      den |-> 2]
    /\ median_pc' = "done"
    /\ UNCHANGED <<Height, height_sorted, height_length_mod_2>>

MedianNext ==
    MedianSort \/ MedianMod \/ MedianOdd \/ MedianOddKeyError \/ MedianEven

\* The k-th smallest value (k counted from 1) of the values of Height, said
\* without sorting: fewer than k values are below it and at least k are not
\* above it.
KthSmallest(k) ==
    CHOOSE x \in Heights :
        /\ Cardinality({i \in DOMAIN Height : Height[i].value < x}) < k
        /\ Cardinality({i \in DOMAIN Height : Height[i].value <= x}) >= k

\* C2 (as claimed): with an odd number n of values the if statement leaves
\* median equal to the middle value of the sorted values, the one at sorted
\* position (n+1)/2, whatever the row labels are.
C2_OddMedianIsMiddle ==
    (median_pc \in {"done", "KeyError"} /\ Len(Height) % 2 = 1) =>
        /\ median_pc = "done"
        /\ median.den = 1
        /\ median.num = KthSmallest((Len(Height) + 1) \div 2)

\* C3: with an even number n of values the median is the average of the
\* values at sorted positions n/2 and n/2+1.
C3_EvenMedianIsAverage ==
    (median_pc \in {"done", "KeyError"} /\ Len(Height) % 2 = 0) =>
        /\ median_pc = "done"
        /\ median.den = 2
        /\ median.num = KthSmallest(Len(Height) \div 2)
                        + KthSmallest((Len(Height) \div 2) + 1)

\* C3 witness: four values whose two middle values differ from each other
\* and from the extremes
C3_Witness ==
    /\ median_pc = "done"
    /\ Len(Height) = 4
    /\ KthSmallest(1) < KthSmallest(2)
    /\ KthSmallest(2) < KthSmallest(3)
    /\ median = [num |-> KthSmallest(2) + KthSmallest(3), den |-> 2]

(***************************************************************************)
(* notebooks/04-FittingSimpleModels.py : my_mode_function                  *)
(*                                                                         *)
(* The input is a list of values; Missing stands for None / NaN, which     *)
(* pd.Series(input).value_counts() leaves out (dropna=True by default).    *)
(***************************************************************************)
MaxInputLen == 4

Missing == "NaN"

ModeValues == {"a", "b", "c"}

InputValues == ModeValues \cup {Missing}

VARIABLES
    input,          \* the argument
    frequencies,    \* line 146: sequence of [value, count], most frequent first
    max_frequency,  \* line 149: Num(count), or NaN for an empty Series
    mode,           \* lines 152-153: the returned array
    mode_pc         \* "call", "counted", "max", "done"

varsMode == <<input, frequencies, max_frequency, mode, mode_pc>>

Occurrences(s, v) == Cardinality({i \in DOMAIN s : s[i] = v})

\* the distinct non-missing values of s in order of first appearance
RECURSIVE Uniques(_)
Uniques(s) ==
    IF s = <<>> THEN <<>>
    ELSE LET before == Uniques(SubSeq(s, 1, Len(s) - 1))
             v == s[Len(s)]
         IN  IF v = Missing \/ \E i \in DOMAIN before : before[i] = v
             THEN before
             ELSE Append(before, v)

\* stable insertion by decreasing count
RECURSIVE InsertCount(_, _)
InsertCount(sorted, e) ==
    IF sorted = <<>> THEN <<e>>
    ELSE IF e.count > Head(sorted).count THEN <<e>> \o sorted
    ELSE <<Head(sorted)>> \o InsertCount(Tail(sorted), e)

RECURSIVE SortCounts(_)
SortCounts(s) ==
    IF s = <<>> THEN <<>>
    ELSE InsertCount(SortCounts(SubSeq(s, 1, Len(s) - 1)), s[Len(s)])

\* line 146: input.value_counts()
ValueCounts(s) ==
    LET u == Uniques(s)
    IN  SortCounts([i \in DOMAIN u |->
                      [value |-> u[i], count |-> Occurrences(s, u[i])]])

\* line 149: frequencies.max(); NaN when there is nothing to take the max of
SeriesMax(f) ==
    IF f = <<>> THEN NaN
    ELSE Num(CHOOSE m \in {f[i].count : i \in DOMAIN f} :
                 \A i \in DOMAIN f : f[i].count <= m)

RECURSIVE SelectEq(_, _)
SelectEq(f, mx) ==
    IF f = <<>> THEN <<>>
    ELSE (IF (~mx.isnan) /\ Head(f).count = mx.val
          THEN <<Head(f).value>> ELSE <<>>)
         \o SelectEq(Tail(f), mx)

\* a plausible slip: only the first of the most frequent values (idxmax)
ModeFirstOnly(f, mx) ==
    IF SelectEq(f, mx) = <<>> THEN <<>> ELSE <<Head(SelectEq(f, mx))>>

\* lines 152-153: frequencies.loc[frequencies == max_frequency].index.values
ModeOf(f, mx) == SelectEq(f, mx)

ModeInit ==
    /\ \E n \in 0..MaxInputLen : input \in [1..n -> InputValues]
    /\ frequencies = <<>>
    /\ max_frequency = NaN
    /\ mode = <<>>
    /\ mode_pc = "call"

ModeIdle ==
    /\ input = <<>>
    /\ frequencies = <<>>
    /\ max_frequency = NaN
    /\ mode = <<>>
    /\ mode_pc = "idle"

\* lines 143-146
ModeCount ==
    /\ mode_pc = "call"
    /\ frequencies' = ValueCounts(input)
    /\ mode_pc' = "counted"
    /\ UNCHANGED <<input, max_frequency, mode>>

\* line 149
ModeMax ==
    /\ mode_pc = "counted"
    /\ max_frequency' = SeriesMax(frequencies)
    /\ mode_pc' = "max"
    /\ UNCHANGED <<input, frequencies, mode>>

\* lines 152-155
ModeReturn ==
    /\ mode_pc = "max"
    /\ mode' = ModeOf(frequencies, max_frequency)
    /\ mode_pc' = "done"
    /\ UNCHANGED <<input, frequencies, max_frequency>>

ModeNext == ModeCount \/ ModeMax \/ ModeReturn

Returned == {mode[i] : i \in DOMAIN mode}

InputSet == {input[i] : i \in DOMAIN input}

\* C4 (as claimed): for any list the function returns exactly the distinct
\* values of the input whose number of occurrences is the largest number of
\* occurrences of any value of the input.
C4_ModeOfAnyInput ==
    mode_pc = "done" =>
        Returned = {v \in InputSet :
                      \A w \in InputSet :
                          Occurrences(input, w) <= Occurrences(input, v)}

\* C4 (amended): the function returns, each once, exactly the distinct
\* non-missing values whose number of occurrences is the largest among the
\* non-missing values; all the values tied for it are returned, and a
\* missing value (None, NaN) is neither counted nor returned.
C4_ModeOfPresentValues ==
    mode_pc = "done" =>
        /\ Returned = {v \in InputSet \ {Missing} :
                         \A w \in InputSet \ {Missing} :
                             Occurrences(input, w) <= Occurrences(input, v)}
        /\ Cardinality(Returned) = Len(mode)

\* C4 witness: two values tie for the largest count among the values present
\* while the missing value occurs more often than either, and exactly the two
\* are returned
C4_Witness ==
    /\ mode_pc = "done"
    /\ Occurrences(input, Missing) = 2
    /\ Len(mode) = 2
    /\ mode[1] # mode[2]
    /\ Occurrences(input, mode[1]) = 1

(***************************************************************************)
(* notebooks/08-HypothesisTesting.py : the coin-flipping p-value           *)
(*                                                                         *)
(* A run tosses NumCoins coins and counts the heads; a count stands for    *)
(* every way of tossing it.  Percentiles and the p-value are fractions     *)
(* [num, den].                                                             *)
(***************************************************************************)
FlipRuns == 3

NumCoins == 100

ObservedHeads == 70

\* the score 0.7 handed to percentileofscore, in tenths
ScoreTenths == 7

\* the head counts a run is let to return: both ends, the middle, and the
\* counts around the observed one
HeadCounts == {0, NumCoins \div 2, ObservedHeads - 1, ObservedHeads,
               ObservedHeads + 1, NumCoins}

VARIABLES
    flip_results_df,  \* column n_heads, one cell per run
    flip_run,         \* loop variable run
    pvalue,           \* line 53
    flip_pc           \* "loop", "pvalue", "done"

varsFlip == <<flip_results_df, flip_run, pvalue, flip_pc>>

\* scipy.stats.percentileofscore(a, score) with the default kind='rank':
\* (left + right + (1 if right > left else 0)) * 50 / n, where left counts
\* the values below the score and right the values not above it.  The
\* score is in tenths.
PercentileOfScore(a, scoreTenths) ==
    LET left  == Cardinality({i \in DOMAIN a : 10 * a[i] < scoreTenths})
        right == Cardinality({i \in DOMAIN a : 10 * a[i] <= scoreTenths})
    IN  [num |-> (left + right + (IF right > left THEN 1 ELSE 0)) * 50,
         den |-> Len(a)]

\* line 53: 100 - percentileofscore(flip_results_df, 0.7)
PValueOf(a) ==
    LET pct == PercentileOfScore(a, ScoreTenths)
    IN  [num |-> 100 * pct.den - pct.num, den |-> pct.den]

FlipInit ==
    /\ flip_results_df = [i \in 1..FlipRuns |-> 0]
    /\ flip_run = 0
    /\ pvalue = Unassigned
    /\ flip_pc = "loop"

FlipIdle ==
    /\ flip_results_df = <<>>
    /\ flip_run = 0
    /\ pvalue = Unassigned
    /\ flip_pc = "idle"

\* lines 43-44 with 32-38: one run of toss_coins_and_count_heads()
FlipLoop ==
    /\ flip_pc = "loop"
    /\ flip_run < FlipRuns
    /\ \E heads \in HeadCounts :
         flip_results_df' = [flip_results_df EXCEPT ![flip_run + 1] = heads]
    /\ flip_run' = flip_run + 1
    /\ UNCHANGED <<pvalue, flip_pc>>

\* the for loop ends
FlipLoopEnd ==
    /\ flip_pc = "loop"
    /\ flip_run = FlipRuns
    /\ flip_pc' = "pvalue"
    /\ UNCHANGED <<flip_results_df, flip_run, pvalue>>

\* line 53
FlipPValue ==
    /\ flip_pc = "pvalue"
    /\ pvalue' = PValueOf(flip_results_df)
    /\ flip_pc' = "done"
    /\ UNCHANGED <<flip_results_df, flip_run>>

FlipNext == FlipLoop \/ FlipLoopEnd \/ FlipPValue

RunsAtLeastObserved ==
    Cardinality({i \in DOMAIN flip_results_df :
                    flip_results_df[i] >= ObservedHeads})

\* C5 (as claimed): pvalue is the share of the simulated runs in which
\* ObservedHeads (70) or more heads were counted.
C5_PValueIsShareOfRuns ==
    flip_pc = "done" =>
        pvalue.num * FlipRuns = RunsAtLeastObserved * pvalue.den

(***************************************************************************)
(* notebooks/08-HypothesisTesting.py : simulated t-tests                   *)
(*                                                                         *)
(* p-values are in thousandths.  p_error is the fraction num/den of        *)
(* thousandths; den = 0 after the mean is NaN (the mean of no rows).       *)
(***************************************************************************)
SimRuns == 3

\* 0.05 in thousandths
Alpha == 50

\* the p-values a run is let to return, in thousandths
PValues == {1, 20, Alpha - 1, Alpha, Alpha + 1, 500}

VARIABLES
    sim_results_df,  \* column p_value, one cell per run
    sim_run,         \* loop variable run
    p_error,         \* line 104
    sim_pc           \* "loop", "p_error", "done"

varsSim == <<sim_results_df, sim_run, p_error, sim_pc>>

RECURSIVE SeqSum(_)
SeqSum(s) == IF s = <<>> THEN 0 ELSE Head(s) + SeqSum(Tail(s))

\* rows of the frame whose p_value is below alpha: df.loc[df['p_value'] < alpha]
RECURSIVE RowsBelow(_, _)
RowsBelow(s, alpha) ==
    IF s = <<>> THEN <<>>
    ELSE (IF Head(s) < alpha THEN <<Head(s)>> ELSE <<>>)
         \o RowsBelow(Tail(s), alpha)

\* .mean(axis=0) of the column: the sum over the number of rows
ColumnMean(s) == [num |-> SeqSum(s), den |-> Len(s)]

\* line 104
PErrorOf(s) == ColumnMean(RowsBelow(s, Alpha))

SimInit ==
    /\ sim_results_df = [i \in 1..SimRuns |-> 0]
    /\ sim_run = 0
    /\ p_error = Unassigned
    /\ sim_pc = "loop"

SimIdle ==
    /\ sim_results_df = <<>>
    /\ sim_run = 0
    /\ p_error = Unassigned
    /\ sim_pc = "idle"

\* lines 101-102 with 88-94: one run of sample_ttest()
SimLoop ==
    /\ sim_pc = "loop"
    /\ sim_run < SimRuns
    /\ \E pv \in PValues :
         sim_results_df' = [sim_results_df EXCEPT ![sim_run + 1] = pv]
    /\ sim_run' = sim_run + 1
    /\ UNCHANGED <<p_error, sim_pc>>

\* the for loop ends
SimLoopEnd ==
    /\ sim_pc = "loop"
    /\ sim_run = SimRuns
    /\ sim_pc' = "p_error"
    /\ UNCHANGED <<sim_results_df, sim_run, p_error>>

\* line 104
SimPError ==
    /\ sim_pc = "p_error"
    /\ p_error' = PErrorOf(sim_results_df)
    /\ sim_pc' = "done"
    /\ UNCHANGED <<sim_results_df, sim_run>>

SimNext == SimLoop \/ SimLoopEnd \/ SimPError

RunsBelowAlpha ==
    Cardinality({i \in DOMAIN sim_results_df : sim_results_df[i] < Alpha})

\* C6 (as claimed): p_error is the number of runs whose p-value is below
\* 0.05 divided by the number of runs.  (p_error.num / p_error.den is in
\* thousandths, hence the 1000.)
C6_PErrorIsProportion ==
    sim_pc = "done" =>
        /\ p_error.den # 0
        /\ p_error.num * SimRuns = RunsBelowAlpha * 1000 * p_error.den

(***************************************************************************)
(* notebooks/13-GeneralLinearModel.py : the cross-validation loop          *)
(*                                                                         *)
(* Rows of diabetes_df are the positions 0..n_rows-1.  KFold is run with   *)
(* NSplits folds (10 in the notebook, scaled down here).  A fitted model   *)
(* is named by the iteration that fitted it and the rows it was trained    *)
(* on; a prediction by the model and the row it is for.                    *)
(***************************************************************************)
NSplits == 3

MaxRows == 6

VARIABLES
    n_rows,        \* diabetes_df.shape[0]
    indices,       \* KFold's shuffled np.arange(n_rows)
    fold,          \* number of iterations of the for loop done
    train_index,   \* line 284
    test_index,    \* line 284
    Predicted,     \* diabetes_df['Predicted'], by row position
    held_out,      \* history: for each row, the iterations whose test fold held it
    kf_pc          \* "start", "loop", "done"

varsKFold == <<n_rows, indices, fold, train_index, test_index, Predicted,
               held_out, kf_pc>>

RowPositions(n) == 0..(n - 1)

\* the shuffles of np.arange(n): the sequences holding each position once
Shuffles(n) ==
    {p \in [1..n -> RowPositions(n)] :
        \A i, j \in 1..n : i # j => p[i] # p[j]}

\* a plausible slip: every fold n // k long, the remainder rows in no fold
FoldSizeNoRemainder(n, k, f) == n \div k

\* KFold: fold_sizes = n // k, the first n % k folds one longer (f from 0)
FoldSize(n, k, f) == (n \div k) + (IF f < n % k THEN 1 ELSE 0)

RECURSIVE FoldStart(_, _, _)
FoldStart(n, k, f) ==
    IF f = 0 THEN 0 ELSE FoldStart(n, k, f - 1) + FoldSize(n, k, f - 1)

\* the rows of the f-th test fold: indices[start:stop]
TestRows(ind, k, f) ==
    {ind[i] : i \in (FoldStart(Len(ind), k, f) + 1)..
                    (FoldStart(Len(ind), k, f) + FoldSize(Len(ind), k, f))}

\* a set of row positions as an index array, in increasing order (KFold
\* builds both index arrays from a boolean mask)
RECURSIVE Ascending(_)
Ascending(S) ==
    IF S = {} THEN <<>>
    ELSE <<SetMin(S)>> \o Ascending(S \ {SetMin(S)})

SeqSet(q) == {q[i] : i \in DOMAIN q}

\* logit(..., data=train_data).fit(): the model fitted in iteration f
Fit(f, train) == [fold |-> f, train |-> SeqSet(train)]

\* trainfit.predict(test_data[...]): one prediction per test row, in order
Predict(model, test) ==
    [i \in DOMAIN test |-> Num([model |-> model, row |-> test[i]])]

\* series.iloc[list(positions)] = values
IlocAssign(series, positions, values) ==
    [r \in DOMAIN series |->
        IF \E i \in DOMAIN positions : positions[i] = r
        THEN values[CHOOSE i \in DOMAIN positions : positions[i] = r]
        ELSE series[r]]

KFoldInit ==
    /\ n_rows \in NSplits..MaxRows
    /\ indices = <<>>
    /\ fold = 0
    /\ train_index = <<>>
    /\ test_index = <<>>
    /\ Predicted = <<>>
    /\ held_out = <<>>
    /\ kf_pc = "start"

KFoldIdle ==
    /\ n_rows = 0
    /\ indices = <<>>
    /\ fold = 0
    /\ train_index = <<>>
    /\ test_index = <<>>
    /\ Predicted = <<>>
    /\ held_out = <<>>
    /\ kf_pc = "idle"

\* lines 280-284: Predicted = NaN everywhere; kf.split shuffles the rows
KFoldSplit ==
    /\ kf_pc = "start"
    /\ indices' \in Shuffles(n_rows)
    /\ Predicted' = [r \in RowPositions(n_rows) |-> NaN]
    /\ held_out' = [r \in RowPositions(n_rows) |-> {}]
    /\ fold' = 0
    /\ kf_pc' = "loop"
    /\ UNCHANGED <<n_rows, train_index, test_index>>

\* lines 284-290: one iteration of the for loop
KFoldIteration ==
    /\ kf_pc = "loop"
    /\ fold < NSplits
    /\ LET test  == Ascending(TestRows(indices, NSplits, fold))
           train == Ascending(RowPositions(n_rows)
                              \ TestRows(indices, NSplits, fold))
           trainfit == Fit(fold, train)
       IN  /\ test_index' = test
           /\ train_index' = train
           /\ Predicted' = IlocAssign(Predicted, test, Predict(trainfit, test))
           /\ held_out' = [r \in RowPositions(n_rows) |->
                             IF r \in SeqSet(test)
                             THEN held_out[r] \cup {fold} ELSE held_out[r]]
    /\ fold' = fold + 1
    /\ UNCHANGED <<n_rows, indices, kf_pc>>

\* the for loop ends
KFoldEnd ==
    /\ kf_pc = "loop"
    /\ fold = NSplits
    /\ kf_pc' = "done"
    /\ UNCHANGED <<n_rows, indices, fold, train_index, test_index, Predicted,
                   held_out>>

KFoldNext == KFoldSplit \/ KFoldIteration \/ KFoldEnd

\* C7: the train and test rows of an iteration are disjoint (and together
\* all the rows); after the loop every row was in the test fold of exactly
\* one iteration, its Predicted is set, and was produced for that row by
\* the model fitted in the iteration that held the row out, a model that
\* was not trained on the row.
C7_CrossValidation ==
    /\ (kf_pc \in {"loop", "done"} /\ fold > 0) =>
          /\ SeqSet(train_index) \cap SeqSet(test_index) = {}
          /\ SeqSet(train_index) \cup SeqSet(test_index) = RowPositions(n_rows)
          /\ test_index # <<>>
    /\ kf_pc = "done" =>
          \A r \in RowPositions(n_rows) :
              /\ Cardinality(held_out[r]) = 1
              /\ ~Predicted[r].isnan
              /\ Predicted[r].val.row = r
              /\ Predicted[r].val.model.fold \in held_out[r]
              /\ r \notin Predicted[r].val.model.train

\* C7 witness: the loop is over a number of rows that the folds do not
\* divide evenly, shuffled out of order, and the last row was held out first
C7_Witness ==
    /\ kf_pc = "done"
    /\ n_rows % NSplits # 0
    /\ indices[1] = n_rows - 1
    /\ Predicted[n_rows - 1] =
          Num([model |-> [fold |-> 0,
                          train |-> RowPositions(n_rows)
                                    \ TestRows(indices, NSplits, 0)],
               row |-> n_rows - 1])

(***************************************************************************)
(* notebooks/13-GeneralLinearModel.py : generate_linear_data               *)
(*                                                                         *)
(* Reals are modelled by integers; np.random.randn draws from Draws.       *)
(* Seeding (lines 51-52) only fixes which draws come out, so every         *)
(* sequence of draws is allowed with or without a seed.  The argument x is *)
(* [given |-> FALSE] for None, or [given |-> TRUE] with its data.          *)
(***************************************************************************)
MaxPoints == 2

Draws == {-1, 0, 1}

Slopes == {-1, 2}

Intercepts == {0, 10}

NoiseSds == {0, 2}

VARIABLES
    slope,       \* argument
    intercept,   \* argument
    noise_sd,    \* argument
    x_passed,    \* argument x as the caller passed it
    npoints,     \* argument
    x,           \* local x after lines 53-54
    noise,       \* the np.random.randn(x.shape[0]) of line 56
    simulated,   \* the returned frame: [x |-> column, y |-> column]
    gen_pc       \* "call", "y", "done"

varsGen == <<slope, intercept, noise_sd, x_passed, npoints, x, noise,
             simulated, gen_pc>>

SeqsUpTo(S, n) == UNION {[1..k -> S] : k \in 0..n}

\* a plausible slip: the noise is added without scaling by noise_sd
LinearYUnscaledNoise(xv, nz, sl, ic, sd) ==
    [i \in DOMAIN xv |-> xv[i] * sl + ic + nz[i]]

\* line 56: x * slope + intercept + noise * noise_sd, elementwise
LinearY(xv, nz, sl, ic, sd) ==
    [i \in DOMAIN xv |-> xv[i] * sl + ic + nz[i] * sd]

GenInit ==
    /\ slope \in Slopes
    /\ intercept \in Intercepts
    /\ noise_sd \in NoiseSds
    /\ \/ x_passed = [given |-> FALSE, data |-> <<>>]
       \/ \E d \in SeqsUpTo(Draws, MaxPoints) :
             x_passed = [given |-> TRUE, data |-> d]
    /\ npoints \in 0..MaxPoints
    /\ x = <<>>
    /\ noise = <<>>
    /\ simulated = [x |-> <<>>, y |-> <<>>]
    /\ gen_pc = "call"

GenIdle ==
    /\ slope = 0
    /\ intercept = 0
    /\ noise_sd = 0
    /\ x_passed = [given |-> FALSE, data |-> <<>>]
    /\ npoints = 0
    /\ x = <<>>
    /\ noise = <<>>
    /\ simulated = [x |-> <<>>, y |-> <<>>]
    /\ gen_pc = "idle"

\* lines 53-54, x is None: x = np.random.randn(npoints)
GenDrawX ==
    /\ gen_pc = "call"
    /\ ~x_passed.given
    /\ x' \in [1..npoints -> Draws]
    /\ gen_pc' = "y"
    /\ UNCHANGED <<slope, intercept, noise_sd, x_passed, npoints, noise,
                   simulated>>

\* lines 53-54, x was passed: it is kept
GenKeepX ==
    /\ gen_pc = "call"
    /\ x_passed.given
    /\ x' = x_passed.data
    /\ gen_pc' = "y"
    /\ UNCHANGED <<slope, intercept, noise_sd, x_passed, npoints, noise,
                   simulated>>

\* lines 56-57: draw x.shape[0] noise values, compute y, return the frame
GenY ==
    /\ gen_pc = "y"
    /\ \E nz \in [1..Len(x) -> Draws] :
         /\ noise' = nz
         /\ simulated' = [x |-> x,
                          y |-> LinearY(x, nz, slope, intercept, noise_sd)]
    /\ gen_pc' = "done"
    /\ UNCHANGED <<slope, intercept, noise_sd, x_passed, npoints, x>>

GenNext == GenDrawX \/ GenKeepX \/ GenY

\* C8: a passed x is used unchanged whatever npoints is, otherwise npoints
\* values are drawn; the frame's columns x and y have the same length and
\* each y is x*slope + intercept plus its own noise draw times noise_sd.
C8_LinearData ==
    gen_pc = "done" =>
        /\ x_passed.given => simulated.x = x_passed.data
        /\ ~x_passed.given => Len(simulated.x) = npoints
        /\ Len(simulated.y) = Len(simulated.x)
        /\ Len(noise) = Len(simulated.x)
        /\ \A i \in 1..Len(simulated.x) :
              /\ noise[i] \in Draws
              /\ simulated.y[i] =
                   simulated.x[i] * slope + intercept + noise[i] * noise_sd

\* C8 witness: x is passed with a length other than npoints, and a noise
\* draw moves a y off the line
C8_Witness ==
    /\ gen_pc = "done"
    /\ x_passed.given
    /\ Len(x_passed.data) = MaxPoints
    /\ npoints < MaxPoints
    /\ Len(simulated.y) = MaxPoints
    /\ simulated.y[1] # simulated.x[1] * slope + intercept

\* C8 second case reached too: x is not passed and npoints values are drawn
C8_WitnessDrawn ==
    /\ gen_pc = "done"
    /\ ~x_passed.given
    /\ npoints = MaxPoints
    /\ Len(simulated.x) = MaxPoints
    /\ simulated.x[1] # simulated.x[MaxPoints]

(***************************************************************************)
(* notebooks/07-ResamplingAndSimulation.py : percentiles                   *)
(*                                                                         *)
(* Percentiles are given in tenths of a percent (950 is the 95th).  A      *)
(* score is the fraction num/1000.                                         *)
(***************************************************************************)
RECURSIVE InsertNum(_, _)
InsertNum(sorted, v) ==
    IF sorted = <<>> THEN <<v>>
    ELSE IF v < Head(sorted) THEN <<v>> \o sorted
    ELSE <<Head(sorted)>> \o InsertNum(Tail(sorted), v)

RECURSIVE SortNums(_)
SortNums(s) ==
    IF s = <<>> THEN <<>>
    ELSE InsertNum(SortNums(SubSeq(s, 1, Len(s) - 1)), s[Len(s)])

\* scipy.stats.scoreatpercentile(a, per) with the default
\* interpolation_method='fraction': idx = per/100 * (n - 1) into the sorted
\* values; a whole idx gives that value, otherwise the two neighbours are
\* weighted by the distance of idx to each
ScoreAtPercentile(a, perMille) ==
    LET sorted == SortNums(a)
        pos == perMille * (Len(a) - 1)
        i   == pos \div 1000
        rem == pos % 1000
    IN  IF rem = 0
        THEN [num |-> sorted[i + 1] * 1000, den |-> 1000]
        ELSE [num |-> sorted[i + 1] * (1000 - rem) + sorted[i + 2] * rem,
              den |-> 1000]

(***************************************************************************)
(* notebooks/07-ResamplingAndSimulation.py : the simulated maxima          *)
(***************************************************************************)
MaxRuns == 3

MaxSampleSize == 2

CutoffPerMille == 950

ClaimedPerMille == 990

\* the values distribution.rvs() is let to draw
RvsDraws == {-1, 0, 1, 2}

VARIABLES
    sample_max_df,  \* column max, one cell per run
    max_i,          \* loop variable i
    cutoff,         \* line 91
    max_pc          \* "loop", "cutoff", "done"

varsMax == <<sample_max_df, max_i, cutoff, max_pc>>

\* np.max(sample)
NpMax(smp) ==
    CHOOSE m \in {smp[i] : i \in DOMAIN smp} : \A i \in DOMAIN smp : smp[i] <= m

MaxInit ==
    /\ sample_max_df = [i \in 1..MaxRuns |-> 0]
    /\ max_i = 0
    /\ cutoff = Unassigned
    /\ max_pc = "loop"

MaxIdle ==
    /\ sample_max_df = <<>>
    /\ max_i = 0
    /\ cutoff = Unassigned
    /\ max_pc = "idle"

\* lines 81-82 with 65-76: one run of sample_and_return_max(sample_size)
MaxLoop ==
    /\ max_pc = "loop"
    /\ max_i < MaxRuns
    /\ \E smp \in [1..MaxSampleSize -> RvsDraws] :
         sample_max_df' = [sample_max_df EXCEPT ![max_i + 1] = NpMax(smp)]
    /\ max_i' = max_i + 1
    /\ UNCHANGED <<cutoff, max_pc>>

\* the for loop ends
MaxLoopEnd ==
    /\ max_pc = "loop"
    /\ max_i = MaxRuns
    /\ max_pc' = "cutoff"
    /\ UNCHANGED <<sample_max_df, max_i, cutoff>>

\* line 91
MaxCutoff ==
    /\ max_pc = "cutoff"
    /\ cutoff' = ScoreAtPercentile(sample_max_df, CutoffPerMille)
    /\ max_pc' = "done"
    /\ UNCHANGED <<sample_max_df, max_i>>

MaxNext == MaxLoop \/ MaxLoopEnd \/ MaxCutoff

\* C10 (as claimed): cutoff is the 99th percentile of the simulated maxima.
C10_CutoffIs99thPercentile ==
    max_pc = "done" =>
        cutoff = ScoreAtPercentile(sample_max_df, ClaimedPerMille)

(***************************************************************************)
(* notebooks/07-ResamplingAndSimulation.py : the bootstrap                 *)
(*                                                                         *)
(* nhanes_sample and bootstrap_sample are their Height columns.  The       *)
(* statistic of a run is kept as a fraction [num, den].                    *)
(***************************************************************************)
BootRuns == 2

BootSampleSize == 3

LowerPerMille == 25

UpperPerMille == 975

VARIABLES
    nhanes_sample,     \* line 120, Height column
    bootstrap_sample,  \* line 126, Height column of the latest resample
    bootstrap_df,      \* column 'mean', one cell per run
    sampling_run,      \* loop variable
    bootstrap_ci,      \* lines 132-133
    boot_pc            \* "loop", "ci", "done"

varsBoot == <<nhanes_sample, bootstrap_sample, bootstrap_df, sampling_run,
              bootstrap_ci, boot_pc>>

\* Series.mean(): the sum over the number of values
SeriesMean(s) == [num |-> SeqSum(s), den |-> Len(s)]

\* the median of a column, for comparison: the middle sorted value, or the
\* average of the two middle ones
SeriesMedian(s) ==
    LET sorted == SortNums(s)
        n == Len(s)
    IN  IF n % 2 = 1
        THEN [num |-> sorted[(n + 1) \div 2], den |-> 1]
        ELSE [num |-> sorted[n \div 2] + sorted[(n \div 2) + 1], den |-> 2]

\* the numerators of a column of fractions that share the denominator
\* BootSampleSize
Numerators(col) == [i \in DOMAIN col |-> col[i].num]

\* scoreatpercentile over a column of fractions with the same denominator
ColumnScoreAtPercentile(col, perMille) ==
    LET sc == ScoreAtPercentile(Numerators(col), perMille)
    IN  [num |-> sc.num, den |-> sc.den * BootSampleSize]

BootInit ==
    /\ nhanes_sample \in [1..BootSampleSize -> Heights]
    /\ bootstrap_sample = <<>>
    /\ bootstrap_df = [i \in 1..BootRuns |-> [num |-> 0, den |-> BootSampleSize]]
    /\ sampling_run = 0
    /\ bootstrap_ci = <<>>
    /\ boot_pc = "loop"

BootIdle ==
    /\ nhanes_sample = <<>>
    /\ bootstrap_sample = <<>>
    /\ bootstrap_df = <<>>
    /\ sampling_run = 0
    /\ bootstrap_ci = <<>>
    /\ boot_pc = "idle"

\* lines 125-127: draw sample_size rows with replacement, store the statistic
BootLoop ==
    /\ boot_pc = "loop"
    /\ sampling_run < BootRuns
    /\ \E rows \in [1..BootSampleSize -> 1..BootSampleSize] :
         LET resample == [i \in 1..BootSampleSize |-> nhanes_sample[rows[i]]]
         IN  /\ bootstrap_sample' = resample
             /\ bootstrap_df' = [bootstrap_df EXCEPT
                                   ![sampling_run + 1] = SeriesMean(resample)]
    /\ sampling_run' = sampling_run + 1
    /\ UNCHANGED <<nhanes_sample, bootstrap_ci, boot_pc>>

\* the for loop ends
BootLoopEnd ==
    /\ boot_pc = "loop"
    /\ sampling_run = BootRuns
    /\ boot_pc' = "ci"
    /\ UNCHANGED <<nhanes_sample, bootstrap_sample, bootstrap_df,
                   sampling_run, bootstrap_ci>>

\* lines 132-133
BootCI ==
    /\ boot_pc = "ci"
    /\ bootstrap_ci' = <<ColumnScoreAtPercentile(bootstrap_df, LowerPerMille),
                         ColumnScoreAtPercentile(bootstrap_df, UpperPerMille)>>
    /\ boot_pc' = "done"
    /\ UNCHANGED <<nhanes_sample, bootstrap_sample, bootstrap_df,
                   sampling_run>>

BootNext == BootLoop \/ BootLoopEnd \/ BootCI

\* equality of two fractions
SameFraction(a, b) == a.num * b.den = b.num * a.den

\* C9 (as claimed): the statistic a run stores is the median of the Height
\* values of its resample, and bootstrap_ci is the 2.5th and 97.5th
\* percentile of the stored statistics.
C9_BootstrapOfMedian ==
    /\ (boot_pc = "loop" /\ sampling_run > 0) =>
          SameFraction(bootstrap_df[sampling_run],
                       SeriesMedian(bootstrap_sample))
    /\ boot_pc = "done" =>
          bootstrap_ci =
              <<ColumnScoreAtPercentile(bootstrap_df, LowerPerMille),
                ColumnScoreAtPercentile(bootstrap_df, UpperPerMille)>>

(***************************************************************************)
(* Running a notebook top to bottom in a fresh interpreter.                *)
(*                                                                         *)
(* A notebook is the sequence of its top-level code statements.  Each      *)
(* statement has the cell it is in, its first line, the global names it    *)
(* reads before binding them itself, and the global names it binds.  A     *)
(* def binds the function's name and reads nothing of its body: the global *)
(* names the body reads ("needs") are read by each later statement that    *)
(* uses the function.  Names local to a function, a lambda or a            *)
(* comprehension are not global names.  In the percent format a cell       *)
(* starts at a "# %%" line; in the light format a blank or comment line    *)
(* between two statements starts a new cell.                               *)
(***************************************************************************)
St(c, l, r, b) ==
    [cell |-> c, line |-> l, reads |-> r, binds |-> b, def |-> FALSE,
     needs |-> {}]

Def(c, l, r, f, n) ==
    [cell |-> c, line |-> l, reads |-> r, binds |-> {f}, def |-> TRUE,
     needs |-> n]

\* the built-in names the notebooks read: bound in a fresh interpreter
Builtins == {"dir", "help", "int", "list", "print", "range", "round"}

\* 01-IntroductionToPython.py (jupytext light format)
NB_01_IntroductionToPython ==
    <<
      St(1, 61, {}, {}),
      St(2, 65, {}, {}),
      St(3, 87, {}, {}),
      St(4, 91, {}, {}),
      St(5, 96, {"round"}, {}),
      St(6, 102, {}, {}),
      St(7, 104, {}, {}),
      St(8, 108, {}, {}),
      St(9, 110, {}, {}),
      St(10, 114, {}, {}),
      St(11, 122, {}, {"x"}),
      St(11, 123, {"x"}, {}),
      St(12, 127, {"x"}, {}),
      St(13, 129, {"x"}, {}),
      St(14, 133, {"x"}, {"x"}),
      St(15, 135, {"x"}, {}),
      St(16, 147, {}, {"np"}),
      St(17, 153, {}, {"pd"}),
      St(18, 158, {"help", "np"}, {}),
      St(19, 165, {}, {"x"}),
      St(19, 166, {"np", "x"}, {}),
      St(20, 219, {"np"}, {}),
      St(21, 224, {"np"}, {"my_random_numbers"}),
      St(21, 225, {"my_random_numbers"}, {}),
      St(22, 234, {"np"}, {"my_array"}),
      St(22, 235, {"my_array"}, {}),
      St(23, 243, {"my_array"}, {}),
      St(24, 247, {"my_array"}, {}),
      St(25, 251, {"my_array"}, {}),
      St(25, 252, {"my_array"}, {}),
      St(26, 260, {"np"}, {"my_array"}),
      St(26, 261, {"my_array"}, {"my_array_times_five"}),
      St(26, 262, {"my_array_times_five"}, {}),
      St(27, 266, {"np"}, {"my_first_array"}),
      St(27, 267, {"np"}, {"my_second_array"}),
      St(27, 268, {"my_first_array", "my_second_array"}, {}),
      St(28, 272, {"np"}, {"array_a"}),
      St(28, 273, {"np"}, {"array_b"}),
      St(28, 274, {"array_a", "array_b"}, {}),
      St(29, 278, {"np"}, {"my_angle_values"}),
      St(29, 279, {"np", "my_angle_values"}, {"my_sin_values"}),
      St(29, 280, {"my_sin_values"}, {}),
      St(30, 286, {}, {"ages"}),
      St(30, 287, {"ages"}, {}),
      St(31, 291, {"ages"}, {}),
      St(32, 299, {}, {"car_model"}),
      St(32, 300, {"np"}, {"car_price"}),
      St(32, 301, {"np"}, {"car_mileage"}),
      St(33, 305, {"car_price", "car_mileage"}, {"data"}),
      St(33, 307, {"pd", "data", "car_model"}, {"cars_df2"}),
      St(33, 308, {"cars_df2"}, {}),
      St(34, 316, {"cars_df2"}, {}),
      St(35, 320, {"cars_df2"}, {}),
      St(36, 324, {"np", "cars_df2"}, {}),
      St(37, 330, {"cars_df2"}, {}),
      St(38, 334, {"cars_df2"}, {}),
      St(39, 338, {"cars_df2"}, {}),
      St(40, 347, {}, {"data_url"}),
      St(40, 348, {"pd", "data_url"}, {"gdp_data"}),
      St(41, 352, {"gdp_data"}, {}),
      St(42, 356, {"dir", "gdp_data"}, {})
    >>

\* 02-SummarizingData.py (jupytext percent format)
NB_02_SummarizingData ==
    <<
      St(1, 27, {}, {"pd"}),
      St(1, 28, {}, {"np"}),
      St(2, 40, {}, {"load_NHANES_data"}),
      St(2, 41, {"load_NHANES_data"}, {"nhanes_data"}),
      St(3, 47, {"nhanes_data"}, {}),
      St(4, 53, {"nhanes_data"}, {}),
      St(5, 59, {"nhanes_data"}, {}),
      St(6, 66, {"nhanes_data"}, {}),
      St(7, 79, {"nhanes_data"}, {}),
      St(8, 85, {"nhanes_data"}, {}),
      St(9, 91, {"nhanes_data"}, {}),
      St(10, 100, {"nhanes_data"}, {"my_subset"}),
      St(10, 101, {"my_subset"}, {}),
      St(11, 114, {"nhanes_data"}, {"over_50_df"}),
      St(11, 115, {"over_50_df"}, {}),
      St(12, 121, {"nhanes_data"}, {"good_health_df"}),
      St(12, 122, {"good_health_df"}, {}),
      St(13, 131, {"nhanes_data"}, {}),
      St(14, 137, {"nhanes_data"}, {}),
      St(15, 144, {"nhanes_data"}, {}),
      St(15, 145, {"nhanes_data"}, {}),
      St(16, 155, {}, {"open_variable_page"}),
      St(16, 156, {"open_variable_page"}, {}),
      St(17, 168, {"nhanes_data"}, {}),
      St(18, 174, {"nhanes_data"},
          {"GeneralHealthCondition_frequency_dist"}),
      St(18, 175, {"GeneralHealthCondition_frequency_dist"}, {}),
      St(19, 185, {"nhanes_data"}, {}),
      St(19, 186, {"nhanes_data"}, {}),
      St(20, 192, {"print", "nhanes_data"}, {}),
      St(21, 195, {"nhanes_data"}, {}),
      St(22, 201, {"nhanes_data"}, {}),
      St(23, 207, {"nhanes_data"}, {"smoking_df"}),
      St(23, 208, {"smoking_df"}, {}),
      St(24, 214, {"smoking_df"}, {"smoking_df"}),
      St(24, 215, {"smoking_df"}, {}),
      St(25, 221, {"smoking_df"}, {}),
      St(25, 222, {"smoking_df"}, {}),
      St(26, 228, {"smoking_df"}, {})
    >>

\* 03-DataVisualization.py (jupytext light format)
NB_03_DataVisualization ==
    <<
      St(1, 20, {}, {"plt"}),
      St(1, 21, {}, {"sns"}),
      St(1, 22, {}, {"numpy"}),
      St(2, 46, {}, {"load_NHANES_data"}),
      St(2, 47, {"load_NHANES_data"}, {"nhanes_data"}),
      St(3, 52, {"plt", "nhanes_data"}, {"age_histogram"}),
      St(4, 56, {"np", "nhanes_data"}, {"bins"}),
      St(4, 57, {"plt", "nhanes_data", "bins"},
          {"age_histogram_1year_bins"}),
      St(5, 61, {"plt", "nhanes_data", "bins"}, {"age_density_1year_bins"}),
      St(6, 69, {"nhanes_data"}, {"mean_height_by_age"}),
      St(7, 73, {"plt", "mean_height_by_age"}, {}),
      St(7, 74, {"plt"}, {}),
      St(7, 75, {"plt"}, {}),
      St(8, 79, {"sns", "nhanes_data"}, {})
    >>

\* 04-FittingSimpleModels.py (jupytext percent format)
NB_04_FittingSimpleModels ==
    <<
      St(1, 22, {}, {"load_NHANES_data"}),
      St(1, 23, {"load_NHANES_data"}, {"nhanes_data"}),
      St(1, 24, {"nhanes_data"}, {"adult_nhanes_data"}),
      St(2, 30, {"adult_nhanes_data"}, {"adult_nhanes_data"}),
      St(3, 42, {"adult_nhanes_data"}, {}),
      St(4, 48, {"adult_nhanes_data"}, {}),
      St(5, 56, {"adult_nhanes_data"}, {"height_sorted"}),
      St(6, 63, {"height_sorted"}, {"height_length_mod_2"}),
      St(7, 69, {"print"}, {}),
      St(8, 78, {}, {"np"}),
      St(8, 79, {"height_length_mod_2", "int", "np", "height_sorted"},
          {"midpoint", "median", "midpoints"}),
      St(9, 100, {}, {"pd"}),
      St(9, 101, {"pd"}, {"toy_data"}),
      St(10, 107, {"toy_data"}, {"myvar_frequencies"}),
      St(10, 108, {"myvar_frequencies"}, {}),
      St(11, 114, {"myvar_frequencies"}, {"max_frequency"}),
      St(11, 115, {"max_frequency"}, {}),
      St(12, 121, {"myvar_frequencies", "max_frequency"}, {"mode"}),
      Def(13, 129, {}, "my_mode_function", {"pd"}),
      St(14, 168, {"my_mode_function"}, {}),
      St(15, 176, {"my_mode_function"}, {}),
      St(16, 184, {}, {"sample_size"}),
      St(16, 185, {"adult_nhanes_data", "sample_size"}, {"height_sample"}),
      St(17, 193, {"np", "height_sample"}, {"sum_of_squared_errors"}),
      St(18, 200, {"sum_of_squared_errors", "height_sample"},
          {"variance_estimate"}),
      St(18, 201, {"variance_estimate"}, {}),
      St(19, 207, {"height_sample"}, {}),
      St(20, 213, {"np", "variance_estimate"}, {"std_dev_estimate"}),
      St(20, 214, {"std_dev_estimate"}, {}),
      St(21, 220, {"height_sample"}, {}),
      St(22, 228, {"height_sample"}, {"mean_height"}),
      St(22, 229, {"height_sample"}, {"sd_height"}),
      St(22, 231, {"height_sample", "mean_height", "sd_height"},
          {"z_height"}),
      St(23, 238, {}, {"plt"}),
      St(23, 240, {"plt"}, {}),
      St(23, 241, {"plt"}, {}),
      St(23, 242, {"plt", "height_sample"}, {}),
      St(23, 244, {"plt"}, {}),
      St(23, 245, {"plt", "z_height"}, {}),
      St(24, 251, {"plt", "height_sample", "z_height"}, {})
    >>

\* 05-Probability.py (jupytext percent format)
NB_05_Probability ==
    <<
      St(1, 25, {}, {"np"}),
      St(1, 26, {"np"}, {"outcomes"}),
      St(1, 27, {"outcomes"}, {}),
      St(2, 33, {"outcomes"}, {"outcome1isTrue"}),
      St(2, 34, {"outcome1isTrue"}, {}),
      St(3, 40, {"np", "outcome1isTrue"}, {"p1isTrue"}),
      St(3, 41, {"p1isTrue"}, {}),
      St(4, 51, {}, {"pd"}),
      St(4, 52, {"pd"}, {"SFrain"}),
      St(4, 57, {"SFrain"}, {"SFrain"}),
      St(4, 58, {"SFrain"}, {}),
      St(5, 65, {"SFrain"}, {}),
      St(5, 66, {"SFrain"}, {}),
      St(6, 72, {"SFrain"}, {"pRainInSF"}),
      St(6, 73, {"pRainInSF"}, {}),
      St(7, 80, {}, {"load_NHANES_data"}),
      St(7, 81, {"load_NHANES_data"}, {"nhanes_data"}),
      St(7, 83, {"nhanes_data"}, {}),
      St(8, 89, {"nhanes_data"}, {"hearing_data"}),
      St(8, 90, {"hearing_data"}, {}),
      St(9, 96, {"hearing_data"}, {"p_over_70"}),
      St(9, 97, {"p_over_70"}, {}),
      St(10, 103, {"hearing_data"}, {"p_hearing_problem"}),
      St(10, 104, {"p_hearing_problem"}, {}),
      St(11, 110, {"pd", "hearing_data"}, {"joint_table"}),
      St(11, 111, {"joint_table"}, {})
    >>

\* 06-Sampling.py (jupytext percent format)
NB_06_Sampling ==
    <<
      St(1, 25, {}, {"load_NHANES_data"}),
      St(1, 26, {"load_NHANES_data"}, {"nhanes_data"}),
      St(1, 27, {"nhanes_data"}, {"adult_nhanes_data"}),
      St(1, 28, {"adult_nhanes_data"}, {"adult_nhanes_data"}),
      St(2, 36, {}, {"sample_size"}),
      St(2, 37, {}, {"num_samples"}),
      St(2, 39, {}, {"pd"}),
      St(2, 40, {}, {"np"}),
      St(2, 43, {"pd", "np", "num_samples"}, {"sampling_results"}),
      St(2, 45, {"range", "num_samples", "adult_nhanes_data", "sample_size",
          "sampling_results"}, {"sample_num", "sample"}),
      St(3, 55, {}, {"plt"}),
      St(3, 56, {}, {"np"}),
      St(3, 57, {}, {"scipy"}),
      St(3, 58, {}, {"sns"}),
      St(3, 60, {"plt", "sampling_results"}, {"hist"}),
      St(3, 64, {"plt", "adult_nhanes_data", "np", "hist"}, {}),
      St(3, 69, {"np", "hist"}, {"hist_bin_min"}),
      St(3, 70, {"np", "hist"}, {"hist_bin_max"}),
      St(3, 71, {}, {"step_size"}),
      St(3, 72, {"np", "hist_bin_min", "hist_bin_max", "step_size"},
          {"x_values"}),
      St(3, 73, {"scipy", "x_values", "sampling_results"},
          {"normal_values"}),
      St(3, 77, {"plt", "x_values", "normal_values"}, {}),
      St(4, 85, {"plt", "adult_nhanes_data"}, {}),
      Def(5, 93, {}, "sample_and_return_mean", {"np", "pd", "range"}),
      St(6, 122, {"adult_nhanes_data"}, {"adult_income_data"}),
      St(6, 123, {"sample_and_return_mean", "adult_income_data"},
          {"family_income_sampling_dist"}),
      St(6, 124, {"plt", "family_income_sampling_dist"}, {"_"}),
      St(7, 132, {"plt"}, {}),
      St(7, 133, {"plt"}, {}),
      St(7, 134, {"scipy", "adult_income_data", "sns"}, {}),
      St(7, 135, {"plt"}, {}),
      St(7, 137, {"plt"}, {}),
      St(7, 138, {"scipy", "family_income_sampling_dist", "sns"}, {}),
      St(7, 139, {"plt"}, {}),
      Def(8, 150, {}, "get_confidence_interval", {"np", "scipy"}),
      St(9, 169, {}, {"num_runs"}),
      St(9, 171, {"pd", "np", "num_runs"}, {"ci_df"}),
      St(9, 174, {"range", "num_runs", "get_confidence_interval",
          "adult_nhanes_data", "ci_df"}, {"i"}),
      St(10, 184, {"ci_df", "adult_nhanes_data"}, {}),
      St(10, 186, {"ci_df"}, {})
    >>

\* 07-ResamplingAndSimulation.py (jupytext percent format)
NB_07_ResamplingAndSimulation ==
    <<
      St(1, 23, {}, {"scipy"}),
      St(1, 24, {}, {"plt"}),
      St(1, 26, {}, {"num_samples"}),
      St(1, 28, {"plt"}, {}),
      St(1, 30, {"scipy"}, {"generators"}),
      St(1, 35, {}, {"generator_parameters"}),
      St(1, 36, {}, {"panel_num"}),
      St(1, 37, {"generators", "plt", "panel_num", "generator_parameters",
          "num_samples"}, {"distribution", "sample", "panel_num"}),
      St(2, 58, {}, {"np"}),
      St(2, 59, {}, {"pd"}),
      St(2, 61, {}, {"num_runs"}),
      St(2, 62, {}, {"sample_size"}),
      Def(2, 65, {}, "sample_and_return_max", {"np", "scipy"}),
      St(2, 79, {"pd", "np", "num_runs"}, {"sample_max_df"}),
      St(2, 81, {"range", "num_runs", "sample_and_return_max",
          "sample_size", "sample_max_df"}, {"i"}),
      St(3, 91, {"scipy", "sample_max_df"}, {"cutoff"}),
      St(4, 98, {"plt", "sample_max_df"}, {"hist"}),
      St(4, 99, {"plt"}, {}),
      St(4, 100, {"plt"}, {}),
      St(4, 101, {"plt", "cutoff", "np", "hist"}, {"_"}),
      St(5, 110, {}, {"load_NHANES_data"}),
      St(5, 111, {"load_NHANES_data"}, {"nhanes_data"}),
      St(5, 112, {"nhanes_data"}, {"adult_nhanes_data"}),
      St(5, 113, {"adult_nhanes_data"}, {"adult_nhanes_data"}),
      St(5, 115, {}, {"num_runs"}),
      St(5, 116, {}, {"sample_size"}),
      St(5, 120, {"adult_nhanes_data", "sample_size"}, {"nhanes_sample"}),
      St(5, 124, {"pd", "np", "num_runs"}, {"bootstrap_df"}),
      St(5, 125, {"range", "num_runs", "nhanes_sample", "sample_size",
          "bootstrap_df"}, {"sampling_run", "bootstrap_sample"}),
      St(5, 132, {"scipy", "bootstrap_df"}, {"bootstrap_ci"})
    >>

\* 08-HypothesisTesting.py (jupytext percent format)
NB_08_HypothesisTesting ==
    <<
      St(1, 26, {}, {"np"}),
      St(1, 27, {}, {"pd"}),
      St(1, 29, {}, {"num_runs"}),
      Def(1, 32, {}, "toss_coins_and_count_heads", {"np"}),
      St(1, 41, {"pd", "np", "num_runs"}, {"flip_results_df"}),
      St(1, 43, {"range", "num_runs", "toss_coins_and_count_heads",
          "flip_results_df"}, {"run"}),
      St(2, 51, {}, {"scipy"}),
      St(2, 53, {"scipy", "flip_results_df"}, {"pvalue"}),
      St(2, 54, {"pvalue"}, {}),
      St(3, 65, {"scipy"}, {"p_lt_70"}),
      St(3, 66, {"p_lt_70"}, {}),
      St(4, 73, {"p_lt_70"}, {"p_ge_70"}),
      St(4, 74, {"p_ge_70"}, {}),
      St(5, 83, {}, {"num_runs"}),
      Def(5, 88, {}, "sample_ttest", {"np", "scipy"}),
      St(5, 98, {"pd", "np", "num_runs"}, {"sim_results_df"}),
      St(5, 101, {"range", "num_runs", "sample_ttest", "sim_results_df"},
          {"run"}),
      St(5, 104, {"sim_results_df"}, {"p_error"}),
      St(5, 105, {"p_error"}, {})
    >>

\* 09-StatisticalPower.py (jupytext percent format)
NB_09_StatisticalPower ==
    <<
      St(1, 21, {}, {"np"}),
      St(1, 22, {}, {"pd"}),
      St(1, 24, {"np"}, {}),
      St(1, 26, {}, {"load_NHANES_data"}),
      St(1, 28, {"load_NHANES_data"}, {"nhanes_data"}),
      St(1, 29, {"nhanes_data"}, {"adult_nhanes_data"}),
      St(1, 30, {"adult_nhanes_data"}, {"adult_nhanes_data"}),
      St(2, 40, {}, {"scipy"}),
      St(2, 41, {}, {"smp"}),
      St(2, 42, {}, {"plt"}),
      St(2, 44, {"smp"}, {"power_analysis"}),
      St(2, 45, {"power_analysis"}, {"sample_size"}),
      St(2, 46, {"sample_size"}, {}),
      St(3, 56, {"np"}, {"effect_sizes"}),
      St(3, 57, {"np", "range"}, {"sample_sizes"}),
      St(3, 59, {"plt"}, {}),
      St(3, 60, {"plt"}, {"fig"}),
      St(3, 61, {"fig"}, {"ax"}),
      St(3, 62, {"power_analysis", "sample_sizes", "effect_sizes", "ax"},
          {"fig"}),
      St(4, 76, {}, {"num_runs"}),
      St(4, 77, {}, {"effectSize"}),
      St(4, 80, {"smp"}, {"power_analysis"}),
      St(4, 81, {"power_analysis", "effectSize"}, {"sampleSize"}),
      St(4, 85, {"np", "sampleSize"}, {"sampleSize"}),
      Def(4, 91, {}, "get_t_result", {"np", "scipy"}),
      St(4, 103, {"pd", "np", "num_runs"}, {"power_sim_results"}),
      St(4, 105, {"range", "num_runs", "get_t_result", "sampleSize",
          "effectSize", "power_sim_results"}, {"run"}),
      St(4, 109, {"np", "power_sim_results"}, {"p_reject"}),
      St(4, 110, {"p_reject"}, {})
    >>

\* 10-BayesianStatistics.py (jupytext percent format)
NB_10_BayesianStatistics ==
    <<
      St(1, 27, {}, {"sensitivity"}),
      St(1, 28, {}, {"specificity"}),
      St(1, 29, {}, {"prior"}),
      St(1, 30, {"sensitivity"}, {"likelihood"}),
      St(1, 31, {"sensitivity", "prior", "specificity"},
          {"marginal_likelihood"}),
      St(1, 32, {"likelihood", "prior", "marginal_likelihood"},
          {"posterior"}),
      St(1, 33, {"posterior"}, {}),
      St(2, 45, {}, {"np"}),
      St(2, 46, {}, {"pd"}),
      St(2, 47, {}, {"scipy"}),
      St(2, 48, {}, {"plt"}),
      Def(2, 51, {}, "compute_posterior", {}),
      St(2, 58, {"np"}, {"prior_values"}),
      St(2, 59, {"compute_posterior", "prior_values", "sensitivity",
          "specificity"}, {"posterior_values"}),
      St(2, 61, {"plt", "prior_values", "posterior_values"}, {}),
      St(2, 62, {"plt"}, {}),
      St(2, 63, {"plt"}, {"_"}),
      St(3, 74, {}, {"num_responders"}),
      St(3, 75, {}, {"num_tested"}),
      St(3, 77, {"pd", "np"}, {"bayes_df"}),
      St(3, 81, {"scipy", "num_responders", "num_tested", "bayes_df"}, {}),
      St(3, 85, {"bayes_df"}, {}),
      St(3, 89, {"bayes_df"}, {"marginal_likelihood"}),
      St(3, 91, {"bayes_df", "marginal_likelihood"}, {}),
      St(3, 95, {"plt", "bayes_df"}, {}),
      St(3, 96, {"plt", "bayes_df"}, {}),
      St(3, 97, {"plt", "bayes_df"}, {}),
      St(3, 100, {"plt"}, {}),
      St(4, 109, {}, {"num_responders"}),
      St(4, 110, {}, {"num_tested"}),
      St(4, 113, {"bayes_df"}, {"study2_df"}),
      St(4, 117, {"scipy", "num_responders", "num_tested", "study2_df"}, {}),
      St(4, 123, {"study2_df"}, {"marginal_likelihood"}),
      St(4, 125, {"study2_df", "marginal_likelihood"}, {}),
      St(4, 129, {"plt", "study2_df"}, {}),
      St(4, 130, {"plt", "study2_df"}, {}),
      St(4, 131, {"plt", "study2_df"}, {}),
      St(4, 134, {"plt"}, {}),
      St(5, 146, {}, {"load_NHANES_data"}),
      St(5, 147, {"load_NHANES_data"}, {"nhanes_data"}),
      St(5, 148, {"nhanes_data"}, {"adult_nhanes_data"}),
      St(5, 149, {}, {"rseed"}),
      St(5, 152, {"adult_nhanes_data"}, {}),
      St(5, 153, {"adult_nhanes_data"}, {}),
      St(5, 156, {"adult_nhanes_data"}, {}),
      St(5, 157, {"adult_nhanes_data"}, {"adult_nhanes_data"}),
      St(5, 159, {}, {"sample_size_per_group"}),
      St(5, 161, {"adult_nhanes_data", "sample_size_per_group", "rseed"},
          {"nonsmoker_sample"}),
      St(5, 162, {"adult_nhanes_data", "sample_size_per_group", "rseed"},
          {"smoker_sample"}),
      St(5, 164, {"pd", "nonsmoker_sample", "smoker_sample"},
          {"full_sample"}),
      St(5, 165, {"full_sample"}, {}),
      St(5, 166, {"full_sample"}, {}),
      St(6, 177, {}, {"robjects"}),
      St(6, 178, {}, {"r", "pandas2ri"}),
      St(6, 179, {}, {"importr"}),
      St(6, 180, {"pandas2ri"}, {}),
      St(6, 183, {"importr"}, {"BayesFactor"}),
      St(6, 186, {"smoker_sample", "robjects"}, {}),
      St(6, 187, {"nonsmoker_sample", "robjects"}, {}),
      St(6, 190, {"r"}, {"ttest_output"}),
      St(6, 193, {"r"}, {}),
      St(6, 194, {"r"}, {})
    >>

\* 10_StatisticalPower.py (jupytext percent format)
NB_10_StatisticalPower ==
    <<
      St(1, 21, {}, {"np"}),
      St(1, 22, {}, {"pd"}),
      St(1, 25, {"np"}, {}),
      St(1, 27, {"load_NHANES_data"}, {"nhanes_data"}),
      St(1, 28, {"nhanes_data"}, {"adult_nhanes_data"}),
      St(1, 29, {"adult_nhanes_data"}, {"adult_nhanes_data"}),
      St(2, 42, {}, {"scipy"}),
      St(2, 43, {}, {"smp"}),
      St(2, 44, {}, {"plt"}),
      St(2, 45, {}, {"sns"}),
      St(2, 47, {"smp"}, {"power_analysis"}),
      St(2, 48, {"power_analysis"}, {"sample_size"}),
      St(2, 49, {"sample_size"}, {}),
      St(3, 64, {"np"}, {"effect_sizes"}),
      St(3, 65, {"np", "range"}, {"sample_sizes"}),
      St(3, 67, {"plt"}, {}),
      St(3, 68, {"plt"}, {"fig"}),
      St(3, 69, {"fig"}, {"ax"}),
      St(3, 70, {"power_analysis", "sample_sizes", "effect_sizes", "ax"},
          {"fig"}),
      St(4, 120, {}, {"num_runs"}),
      St(4, 121, {}, {"effectSize"}),
      St(4, 124, {"smp"}, {"power_analysis"}),
      St(4, 125, {"power_analysis", "effectSize"}, {"sampleSize"}),
      St(4, 128, {"np", "sampleSize"}, {"sampleSize"}),
      Def(4, 133, {}, "get_t_result", {"np", "scipy"}),
      St(4, 144, {"pd", "np", "num_runs"}, {"power_sim_results"}),
      St(4, 146, {"range", "num_runs", "get_t_result", "sampleSize",
          "effectSize", "power_sim_results"}, {"run"}),
      St(4, 150, {"np", "power_sim_results"}, {"p_reject"}),
      St(4, 151, {"p_reject"}, {})
    >>

\* 11-ModelingCategoricalRelationships.py (jupytext percent format)
NB_11_ModelingCategoricalRelationships ==
    <<
      St(1, 23, {}, {"load_NHANES_data"}),
      St(1, 24, {"load_NHANES_data"}, {"nhanes_data"}),
      St(1, 25, {"nhanes_data"}, {"adult_nhanes_data"}),
      St(1, 28, {"adult_nhanes_data"}, {}),
      St(1, 29, {"adult_nhanes_data"}, {}),
      St(1, 31, {"adult_nhanes_data"}, {"categorical_df"}),
      St(2, 39, {}, {"sm"}),
      St(2, 40, {"sm", "categorical_df"}, {"table"}),
      St(2, 41, {"table"}, {}),
      St(3, 47, {"table"}, {}),
      St(4, 53, {}, {"np"}),
      St(4, 54, {"np", "table"}, {"orig_vector"}),
      St(4, 55, {"np", "table"}, {"independence_vector"}),
      St(4, 56, {"orig_vector", "independence_vector"}, {"squared_resid"}),
      St(4, 57, {"np", "squared_resid", "independence_vector"}, {"chi2"}),
      St(4, 58, {"chi2"}, {}),
      St(5, 71, {"table"}, {})
    >>

\* 13-GeneralLinearModel.py (jupytext percent format)
NB_13_GeneralLinearModel ==
    <<
      St(1, 21, {}, {"load_NHANES_data"}),
      St(1, 22, {"load_NHANES_data"}, {"nhanes_data"}),
      St(1, 23, {"nhanes_data"}, {"adult_nhanes_data"}),
      St(2, 32, {}, {"np"}),
      St(2, 33, {}, {"pd"}),
      St(2, 34, {}, {"plt"}),
      Def(2, 37, {}, "generate_linear_data", {"np", "pd"}),
      St(2, 60, {}, {"slope"}),
      St(2, 61, {}, {"intercept"}),
      St(2, 62, {}, {"noise_sd"}),
      St(2, 63, {"generate_linear_data", "slope", "intercept", "noise_sd"},
          {"simulated_data"}),
      St(2, 65, {"plt", "simulated_data"}, {}),
      St(3, 72, {}, {"ols"}),
      St(3, 74, {"ols", "simulated_data"}, {"ols_model"}),
      St(3, 75, {"ols_model"}, {"ols_result"}),
      St(3, 76, {"ols_result"}, {}),
      St(4, 86, {"ols_result"}, {}),
      St(5, 95, {}, {"sns"}),
      St(5, 96, {}, {"scipy"}),
      St(5, 98, {"scipy", "ols_result", "sns"}, {"_"}),
      St(6, 104, {"plt", "ols_result"}, {}),
      St(6, 105, {"plt"}, {}),
      St(6, 106, {"plt"}, {}),
      St(7, 115, {"simulated_data"}, {}),
      St(7, 116, {}, {"hidden_effect_size"}),
      St(7, 117, {"simulated_data", "hidden_effect_size"}, {}),
      St(8, 124, {"ols", "simulated_data"}, {"ols_model2"}),
      St(8, 125, {"ols_model2"}, {"ols_result2"}),
      St(8, 127, {"plt"}, {}),
      St(8, 128, {"plt"}, {}),
      St(8, 129, {"scipy", "ols_result2", "sns"}, {}),
      St(8, 131, {"plt"}, {}),
      St(8, 132, {"plt", "ols_result2"}, {}),
      St(8, 133, {"plt"}, {}),
      St(8, 134, {"plt"}, {}),
      St(9, 142, {}, {"noise_sd"}),
      St(9, 143, {"simulated_data", "slope", "intercept", "np", "noise_sd"},
          {}),
      St(9, 145, {"plt", "simulated_data"}, {}),
      St(10, 148, {"ols", "simulated_data"}, {"ols_model3"}),
      St(10, 149, {"ols_model3"}, {"ols_result3"}),
      St(10, 150, {"ols_result3"}, {}),
      St(11, 170, {"simulated_data"}, {}),
      St(11, 171, {"ols", "simulated_data"}, {"ols_model4"}),
      St(11, 172, {"ols_model4"}, {"ols_result4"}),
      St(11, 173, {"ols_result4"}, {}),
      St(12, 180, {"plt"}, {}),
      St(12, 181, {"plt"}, {}),
      St(12, 182, {"scipy", "ols_result4", "sns"}, {}),
      St(12, 184, {"plt"}, {}),
      St(12, 185, {"plt", "ols_result4"}, {}),
      St(12, 186, {"plt"}, {}),
      St(12, 187, {"plt"}, {}),
      St(13, 196, {}, {"logit"}),
      St(13, 198, {"adult_nhanes_data"}, {"diabetes_df"}),
      St(13, 202, {"diabetes_df"}, {}),
      St(14, 210, {"logit", "diabetes_df"}, {"logitfit"}),
      St(14, 212, {"logitfit"}, {}),
      St(15, 221, {"logitfit", "diabetes_df"}, {}),
      St(15, 223, {"pd", "diabetes_df"}, {}),
      St(16, 231, {"diabetes_df"}, {}),
      St(17, 237, {"np", "diabetes_df"}, {}),
      St(18, 243, {}, {"roc_auc_score"}),
      St(18, 244, {"roc_auc_score", "diabetes_df", "logitfit"},
          {"rocscore"}),
      St(18, 245, {"rocscore"}, {}),
      St(19, 251, {}, {"shuffle"}),
      St(19, 253, {"diabetes_df"}, {"shuffled_df"}),
      St(19, 255, {}, {"num_runs"}),
      St(19, 257, {"pd", "np", "num_runs"}, {"roc_scores"}),
      St(19, 259, {"range", "num_runs", "shuffle", "shuffled_df", "logit",
          "roc_auc_score", "roc_scores"}, {"simulation_run", "randomfit"}),
      St(19, 265, {"scipy", "roc_scores", "rocscore"}, {"pvalue"}),
      St(19, 266, {"pvalue"}, {}),
      St(20, 278, {}, {"KFold"}),
      St(20, 280, {"KFold"}, {"kf"}),
      St(20, 282, {"np", "diabetes_df"}, {}),
      St(20, 284, {"kf", "diabetes_df", "logit", "list"}, {"train_index",
          "test_index", "train_data", "test_data", "model", "trainfit"}),
      St(20, 292, {"print", "pd", "diabetes_df"}, {}),
      St(20, 294, {"roc_auc_score", "diabetes_df"}, {})
    >>

Notebooks ==
    [n \in {"01-IntroductionToPython.py", "02-SummarizingData.py",
            "03-DataVisualization.py", "04-FittingSimpleModels.py",
            "05-Probability.py", "06-Sampling.py",
            "07-ResamplingAndSimulation.py", "08-HypothesisTesting.py",
            "09-StatisticalPower.py", "10-BayesianStatistics.py",
            "10_StatisticalPower.py",
            "11-ModelingCategoricalRelationships.py",
            "13-GeneralLinearModel.py"} |->
        CASE n = "01-IntroductionToPython.py" -> NB_01_IntroductionToPython
          [] n = "02-SummarizingData.py" -> NB_02_SummarizingData
          [] n = "03-DataVisualization.py" -> NB_03_DataVisualization
          [] n = "04-FittingSimpleModels.py" -> NB_04_FittingSimpleModels
          [] n = "05-Probability.py" -> NB_05_Probability
          [] n = "06-Sampling.py" -> NB_06_Sampling
          [] n = "07-ResamplingAndSimulation.py"
               -> NB_07_ResamplingAndSimulation
          [] n = "08-HypothesisTesting.py" -> NB_08_HypothesisTesting
          [] n = "09-StatisticalPower.py" -> NB_09_StatisticalPower
          [] n = "10-BayesianStatistics.py" -> NB_10_BayesianStatistics
          [] n = "10_StatisticalPower.py" -> NB_10_StatisticalPower
          [] n = "11-ModelingCategoricalRelationships.py"
               -> NB_11_ModelingCategoricalRelationships
          [] n = "13-GeneralLinearModel.py" -> NB_13_GeneralLinearModel]

VARIABLES
    notebook,       \* the notebook being run
    stop_on_error,  \* TRUE: "Run All", which stops at the first error;
                    \* FALSE: the cells are run one after the other anyway
    stmt,           \* position of the next statement (from 1)
    bound,          \* the global names bound so far
    functions,      \* the functions defined so far: [name, needs]
    name_errors,    \* the NameErrors raised: [cell, line, names]
    run_pc          \* "run", "done", "stopped"

varsRun == <<notebook, stop_on_error, stmt, bound, functions, name_errors,
             run_pc>>

\* the names whose lookup raises NameError when statement s runs: among the
\* names it reads and, for every function among them, the names the
\* function's body needs (and so on), those that are not bound
Undefined(s, bnd, funs) ==
    LET RECURSIVE NamesRead(_)
        NamesRead(names) ==
            LET more == names \cup
                    UNION {f.needs : f \in {g \in funs : g.name \in names}}
            IN  IF more = names THEN names ELSE NamesRead(more)
    IN  NamesRead(s.reads) \ bnd

\* the position of the first statement after cell c (past the end if none)
NextCell(nbk, c) ==
    IF \E i \in DOMAIN nbk : nbk[i].cell > c
    THEN CHOOSE i \in DOMAIN nbk :
             /\ nbk[i].cell > c
             /\ \A j \in DOMAIN nbk : nbk[j].cell > c => i <= j
    ELSE Len(nbk) + 1

RunInit ==
    /\ notebook \in DOMAIN Notebooks
    /\ stop_on_error \in BOOLEAN
    /\ stmt = 1
    /\ bound = Builtins
    /\ functions = {}
    /\ name_errors = {}
    /\ run_pc = "run"

RunIdle ==
    /\ notebook = ""
    /\ stop_on_error = FALSE
    /\ stmt = 1
    /\ bound = {}
    /\ functions = {}
    /\ name_errors = {}
    /\ run_pc = "idle"

\* a statement whose names are all bound runs and binds its names
RunStatement ==
    /\ run_pc = "run"
    /\ stmt <= Len(Notebooks[notebook])
    /\ LET s == Notebooks[notebook][stmt]
       IN  /\ Undefined(s, bound, functions) = {}
           /\ bound' = bound \cup s.binds
           \* binding a name again forgets the function it named; a def
           \* records the names its body needs
           /\ functions' =
                 {g \in functions : g.name \notin s.binds}
                 \cup (IF s.def
                       THEN {[name |-> f, needs |-> s.needs] : f \in s.binds}
                       ELSE {})
    /\ stmt' = stmt + 1
    /\ UNCHANGED <<notebook, stop_on_error, name_errors, run_pc>>

\* a statement that reads an unbound name raises NameError: it binds
\* nothing, the rest of its cell is skipped, and "Run All" stops
RunNameError ==
    /\ run_pc = "run"
    /\ stmt <= Len(Notebooks[notebook])
    /\ LET s == Notebooks[notebook][stmt]
       IN  /\ Undefined(s, bound, functions) # {}
           /\ name_errors' = name_errors \cup
                {[cell |-> s.cell, line |-> s.line,
                  names |-> Undefined(s, bound, functions)]}
           /\ stmt' = NextCell(Notebooks[notebook], s.cell)
    /\ run_pc' = IF stop_on_error THEN "stopped" ELSE "run"
    /\ UNCHANGED <<notebook, stop_on_error, bound, functions>>

\* the last statement is done
RunEnd ==
    /\ run_pc = "run"
    /\ stmt > Len(Notebooks[notebook])
    /\ run_pc' = "done"
    /\ UNCHANGED <<notebook, stop_on_error, stmt, bound, functions,
                   name_errors>>

RunNext == RunStatement \/ RunNameError \/ RunEnd

\* C11 (as claimed): in every notebook run top to bottom in a fresh
\* interpreter, every name a statement reads was bound by an earlier
\* import, definition or assignment: no cell stops on an undefined name.
C11_NoUndefinedName == name_errors = {}

\* What does hold: only 03-DataVisualization.py and 10_StatisticalPower.py
\* raise a NameError, the first at line 56 (np), the second at line 27
\* (load_NHANES_data); what follows in 03 (bins, lines 57 and 61) is the
\* consequence of line 56 when the run goes on.
NameErrorsFound ==
    /\ notebook \notin {"03-DataVisualization.py", "10_StatisticalPower.py"}
          => name_errors = {}
    /\ notebook = "10_StatisticalPower.py" =>
          name_errors \subseteq
              {[cell |-> 1, line |-> 27, names |-> {"load_NHANES_data"}]}
    /\ notebook = "03-DataVisualization.py" =>
          /\ \A e \in name_errors : e.line \in {56, 57, 61}
          /\ \A e \in name_errors : e.line = 56 => e.names = {"np"}
          /\ \A e \in name_errors : e.line # 56 => e.names = {"bins"}
          /\ name_errors # {} =>
                \E e \in name_errors : e.line = 56
    /\ (run_pc \in {"done", "stopped"}
        /\ notebook \in {"03-DataVisualization.py", "10_StatisticalPower.py"})
          => name_errors # {}

(***************************************************************************)
(* Specifications: one per notebook fragment.  The variables of the other      *)
(* fragments stay at their idle values.                                     *)
(***************************************************************************)

vars == <<varsUtils, varsMedian, varsMode, varsFlip, varsSim, varsKFold,
    varsGen, varsMax, varsBoot, varsRun>>

InitUtils == UtilsInit /\ MedianIdle /\ ModeIdle /\ FlipIdle /\ SimIdle /\
    KFoldIdle /\ GenIdle /\ MaxIdle /\ BootIdle /\ RunIdle

othersUtils == <<varsMedian, varsMode, varsFlip, varsSim, varsKFold, varsGen,
    varsMax, varsBoot, varsRun>>

NextUtils ==
    \/ UtilsCall /\ UNCHANGED othersUtils
    \/ UtilsLoop /\ UNCHANGED othersUtils
    \/ UtilsReturn /\ UNCHANGED othersUtils

SpecUtils == InitUtils /\ [][NextUtils]_vars

InitMedian == MedianInit /\ UtilsIdle /\ ModeIdle /\ FlipIdle /\ SimIdle /\
    KFoldIdle /\ GenIdle /\ MaxIdle /\ BootIdle /\ RunIdle

othersMedian == <<varsUtils, varsMode, varsFlip, varsSim, varsKFold, varsGen,
    varsMax, varsBoot, varsRun>>

NextMedian ==
    \/ MedianSort /\ UNCHANGED othersMedian
    \/ MedianMod /\ UNCHANGED othersMedian
    \/ MedianOdd /\ UNCHANGED othersMedian
    \/ MedianOddKeyError /\ UNCHANGED othersMedian
    \/ MedianEven /\ UNCHANGED othersMedian

SpecMedian == InitMedian /\ [][NextMedian]_vars

InitMode == ModeInit /\ UtilsIdle /\ MedianIdle /\ FlipIdle /\ SimIdle /\
    KFoldIdle /\ GenIdle /\ MaxIdle /\ BootIdle /\ RunIdle

othersMode == <<varsUtils, varsMedian, varsFlip, varsSim, varsKFold, varsGen,
    varsMax, varsBoot, varsRun>>

NextMode ==
    \/ ModeCount /\ UNCHANGED othersMode
    \/ ModeMax /\ UNCHANGED othersMode
    \/ ModeReturn /\ UNCHANGED othersMode

SpecMode == InitMode /\ [][NextMode]_vars

InitFlip == FlipInit /\ UtilsIdle /\ MedianIdle /\ ModeIdle /\ SimIdle /\
    KFoldIdle /\ GenIdle /\ MaxIdle /\ BootIdle /\ RunIdle

othersFlip == <<varsUtils, varsMedian, varsMode, varsSim, varsKFold, varsGen,
    varsMax, varsBoot, varsRun>>

NextFlip ==
    \/ FlipLoop /\ UNCHANGED othersFlip
    \/ FlipLoopEnd /\ UNCHANGED othersFlip
    \/ FlipPValue /\ UNCHANGED othersFlip

SpecFlip == InitFlip /\ [][NextFlip]_vars

InitSim == SimInit /\ UtilsIdle /\ MedianIdle /\ ModeIdle /\ FlipIdle /\
    KFoldIdle /\ GenIdle /\ MaxIdle /\ BootIdle /\ RunIdle

othersSim == <<varsUtils, varsMedian, varsMode, varsFlip, varsKFold, varsGen,
    varsMax, varsBoot, varsRun>>

NextSim ==
    \/ SimLoop /\ UNCHANGED othersSim
    \/ SimLoopEnd /\ UNCHANGED othersSim
    \/ SimPError /\ UNCHANGED othersSim

SpecSim == InitSim /\ [][NextSim]_vars

InitKFold == KFoldInit /\ UtilsIdle /\ MedianIdle /\ ModeIdle /\ FlipIdle /\
    SimIdle /\ GenIdle /\ MaxIdle /\ BootIdle /\ RunIdle

othersKFold == <<varsUtils, varsMedian, varsMode, varsFlip, varsSim, varsGen,
    varsMax, varsBoot, varsRun>>

NextKFold ==
    \/ KFoldSplit /\ UNCHANGED othersKFold
    \/ KFoldIteration /\ UNCHANGED othersKFold
    \/ KFoldEnd /\ UNCHANGED othersKFold

SpecKFold == InitKFold /\ [][NextKFold]_vars

InitGen == GenInit /\ UtilsIdle /\ MedianIdle /\ ModeIdle /\ FlipIdle /\
    SimIdle /\ KFoldIdle /\ MaxIdle /\ BootIdle /\ RunIdle

othersGen == <<varsUtils, varsMedian, varsMode, varsFlip, varsSim, varsKFold,
    varsMax, varsBoot, varsRun>>

NextGen ==
    \/ GenDrawX /\ UNCHANGED othersGen
    \/ GenKeepX /\ UNCHANGED othersGen
    \/ GenY /\ UNCHANGED othersGen

SpecGen == InitGen /\ [][NextGen]_vars

InitMax == MaxInit /\ UtilsIdle /\ MedianIdle /\ ModeIdle /\ FlipIdle /\
    SimIdle /\ KFoldIdle /\ GenIdle /\ BootIdle /\ RunIdle

othersMax == <<varsUtils, varsMedian, varsMode, varsFlip, varsSim, varsKFold,
    varsGen, varsBoot, varsRun>>

NextMax ==
    \/ MaxLoop /\ UNCHANGED othersMax
    \/ MaxLoopEnd /\ UNCHANGED othersMax
    \/ MaxCutoff /\ UNCHANGED othersMax

SpecMax == InitMax /\ [][NextMax]_vars

InitBoot == BootInit /\ UtilsIdle /\ MedianIdle /\ ModeIdle /\ FlipIdle /\
    SimIdle /\ KFoldIdle /\ GenIdle /\ MaxIdle /\ RunIdle

othersBoot == <<varsUtils, varsMedian, varsMode, varsFlip, varsSim, varsKFold,
    varsGen, varsMax, varsRun>>

NextBoot ==
    \/ BootLoop /\ UNCHANGED othersBoot
    \/ BootLoopEnd /\ UNCHANGED othersBoot
    \/ BootCI /\ UNCHANGED othersBoot

SpecBoot == InitBoot /\ [][NextBoot]_vars

InitRun == RunInit /\ UtilsIdle /\ MedianIdle /\ ModeIdle /\ FlipIdle /\
    SimIdle /\ KFoldIdle /\ GenIdle /\ MaxIdle /\ BootIdle

othersRun == <<varsUtils, varsMedian, varsMode, varsFlip, varsSim, varsKFold,
    varsGen, varsMax, varsBoot>>

NextRun ==
    \/ RunStatement /\ UNCHANGED othersRun
    \/ RunNameError /\ UNCHANGED othersRun
    \/ RunEnd /\ UNCHANGED othersRun

SpecRun == InitRun /\ [][NextRun]_vars

====
